---- MODULE Spec2Model ----
(***************************************************************************)
(* The two functions textsearch/python/csrc/utils.cc binds for Python:     *)
(*   row_ids_to_row_splits(row_ids, row_splits)   and   get_new2old(keep). *)
(* The bindings (buffer requests, the derivation of num_elems / num_rows / *)
(* num_old_elems, the returned array) are modelled from utils.cc.  The two *)
(* core routines they call, RowIdsToRowSplits and GetNew2Old, are declared *)
(* in textsearch/csrc/utils.h; they are modelled from the description of   *)
(* the reference algorithm (a single pass, no run-time check of the row    *)
(* ids).                                                                   *)
(*                                                                         *)
(* A 32-bit cell (uint32_t or int32_t) is written as the int32 reading of  *)
(* its bit pattern, so that int32_t -> uint32_t and back are the identity  *)
(* on cells, as they are in the compiled code.  A buffer size (ssize_t) is *)
(* a pair <<hi, lo>> standing for hi * 2^16 + lo, which lets the sizes on  *)
(* both sides of 2^31 and 2^32 be written.                                 *)
(***************************************************************************)
EXTENDS Integers, Sequences, FiniteSets, TLC

VARIABLES calls    \* the invocations in flight: call id -> its frame

vars == <<calls>>

(* ---------------------------- bounds ---------------------------------- *)
MaxElems == 4        \* longest row_ids buffer of a lone call
MaxRowId == 3        \* row ids are drawn from 0..MaxRowId
MaxSplits == 4       \* longest row_splits buffer of a lone call
MaxKeep == 8         \* longest keep mask of a lone call
ConcMaxElems == 2    \* longest row_ids / keep of two concurrent calls
ConcMaxRowId == 1    \* row ids of two concurrent calls
ConcMaxSplits == 2   \* longest row_splits of two concurrent calls
WrapMaxLo == 2       \* low part of the sizes drawn around 2^31 and 2^32

CallIds == {1, 2}

(* ------------------------- sizes and cells ---------------------------- *)
Limb == 2^16
HalfLimb == 2^15

\* the ssize_t value n (0 <= n < 2^31) as a size
SizeOf(n) == <<n \div Limb, n % Limb>>

\* ssize_t subtraction in `row_splits_buf.size - 1`
SizeMinus1(size) ==
  IF size[2] > 0 THEN <<size[1], size[2] - 1>> ELSE <<size[1] - 1, Limb - 1>>

\* the implicit narrowing ssize_t -> int32_t of the two initialisations:
\* the low 32 bits, read as two's complement
ToInt32(size) ==
  LET h == size[1] % Limb
  IN  IF h >= HalfLimb THEN (h - Limb) * Limb + size[2] ELSE h * Limb + size[2]

\* int32_t num_elems = row_ids_buf.size;
NumElemsOffByOne(size) == ToInt32(SizeMinus1(size))
NumElems(size) == ToInt32(size)

\* int32_t num_rows = row_splits_buf.size - 1;
NumRowsNoMinus(size) == ToInt32(size)
NumRows(size) == ToInt32(SizeMinus1(size))

\* size_t num_old_elems = keep_buf.size;
NumOldElemsOffByOne(size) == IF size > 0 THEN size - 1 ELSE 0
NumOldElems(size) == size

\* py::array(count, ptr): a fresh array holding copies of the first count
\* elements at ptr
PyArray(count, data) == SubSeq(data, 1, count)

\* index idx lies inside a buffer of the given size
InBuffer(idx, size) == idx >= 0 /\ (size[1] > 0 \/ idx < size[2])

(* ------------------------------ frames -------------------------------- *)
Junk == MaxElems + 1   \* what a pre-allocated row_splits buffer holds

NoSplits == <<-1>>     \* expanded_from of a row_ids that was not expanded

Off == [kind |-> "none", pc |-> "off"]

\* The frame of row_ids_to_row_splits.  row_ids and row_splits hold the
\* buffers' contents (for a buffer past 2^31 elements: its first elements);
\* writes and expanded_from are history: every store the call has made, and
\* the row splits from which the caller built row_ids, if it did.
ConvCall(ids, idsSize, splitsLen, splitsSize, from) ==
  [kind |-> "row_ids_to_row_splits", pc |-> "request",
   row_ids |-> ids, row_ids_size |-> idsSize,
   row_splits |-> [k \in 1..splitsLen |-> Junk], row_splits_size |-> splitsSize,
   num_elems |-> 0, num_rows |-> 0, i |-> 0, prev |-> -1,
   writes |-> <<>>, row_ids_in |-> ids, expanded_from |-> from]

\* The frame of get_new2old.
MaskCall(keep) ==
  [kind |-> "get_new2old", pc |-> "request", keep |-> keep,
   num_old_elems |-> 0, i |-> 0, new2old |-> <<>>, ret |-> <<>>]

SeqsUpTo(S, n) == UNION {[1..m -> S] : m \in 0..n}

\* each row r repeated S[r+1] - S[r] times (S is 0-based in the text, 1-based here)
RECURSIVE Expand(_)
Expand(S) ==
  IF Len(S) <= 1 THEN <<>>
  ELSE LET front == SubSeq(S, 1, Len(S) - 1)
           r == Len(S) - 2
       IN  Expand(front) \o [k \in 1..(S[Len(S)] - S[Len(S) - 1]) |-> r]

ValidSplits(maxLen, maxElems) ==
  {S \in UNION {[1..m -> 0..maxElems] : m \in 1..maxLen} :
     /\ S[1] = 0
     /\ \A k \in 1..(Len(S) - 1) : S[k] <= S[k + 1]}

ConvCalls ==
  {ConvCall(ids, SizeOf(Len(ids)), L, SizeOf(L), NoSplits) :
     ids \in SeqsUpTo(0..MaxRowId, MaxElems), L \in 0..MaxSplits}
  \cup
  {ConvCall(Expand(S), SizeOf(S[Len(S)]), Len(S), SizeOf(Len(S)), S) :
     S \in ValidSplits(MaxSplits, MaxElems)}

MaskCalls == {MaskCall(keep) : keep \in SeqsUpTo(BOOLEAN, MaxKeep)}

\* Buffers whose sizes lie past 2^31 or 2^32.  Of such a row_ids buffer the
\* frame holds the first lo elements, of such a row_splits buffer the first
\* WrapMaxLo.  A row_splits of exactly 2^31 elements is left out: its
\* num_rows is 2^31 - 1, and the pass over it cannot be walked.
WrapHi == {HalfLimb, Limb}
WrapSplitsSizes == {<<h, lo>> : h \in WrapHi, lo \in 0..WrapMaxLo} \ {<<HalfLimb, 0>>}
WrapConvCalls ==
  {ConvCall(ids, <<h1, Len(ids)>>, WrapMaxLo, size, NoSplits) :
     ids \in SeqsUpTo(0..1, WrapMaxLo), h1 \in WrapHi \cup {0},
     size \in WrapSplitsSizes}
  \cup
  {ConvCall(ids, <<h1, Len(ids)>>, L, <<0, L>>, NoSplits) :
     ids \in SeqsUpTo(0..1, WrapMaxLo), h1 \in WrapHi, L \in 0..WrapMaxLo}

ConcCalls ==
  {ConvCall(ids, SizeOf(Len(ids)), L, SizeOf(L), NoSplits) :
     ids \in SeqsUpTo(0..ConcMaxRowId, ConcMaxElems), L \in 0..ConcMaxSplits}
  \cup {MaskCall(keep) : keep \in SeqsUpTo(BOOLEAN, ConcMaxElems)}

\* one call, run alone
Init == \E f \in ConvCalls \cup MaskCalls : calls = [c \in CallIds |-> IF c = 1 THEN f ELSE Off]

\* one call, run alone, its buffers possibly past the 32-bit boundaries
InitSizes ==
  \E f \in ConvCalls \cup MaskCalls \cup WrapConvCalls :
     calls = [c \in CallIds |-> IF c = 1 THEN f ELSE Off]

\* two calls in flight at once, each on buffers of its own
InitConc == \E f \in ConcCalls, g \in ConcCalls : calls = [c \in CallIds |-> IF c = 1 THEN f ELSE g]

(* ------------------- row_ids_to_row_splits: binding ------------------- *)
IsConv(c) == calls[c].kind = "row_ids_to_row_splits"
IsMask(c) == calls[c].kind = "get_new2old"

\* row_ids.request(), row_splits->request(), num_elems, num_rows; then the
\* call of RowIdsToRowSplits(num_elems, p_row_ids, num_rows, p_row_splits)
RowIdsToRowSplitsRequest(c) ==
  /\ IsConv(c)
  /\ calls[c].pc = "request"
  /\ calls' = [calls EXCEPT ![c] =
       [@ EXCEPT !.num_elems = NumElems(calls[c].row_ids_size),
                 !.num_rows = NumRows(calls[c].row_splits_size),
                 !.i = 0, !.prev = -1, !.pc = "loop"]]

(* ------------------- RowIdsToRowSplits: the core ---------------------- *)
\* What `row_splits[idx] = v` can do.  Inside the buffer it stores.  Outside
\* it is undefined behaviour: the store lands in memory that is none of the
\* call's buffers, or the process faults.
StoreOutcomes(f, idx) ==
  IF InBuffer(idx, f.row_splits_size) THEN {"stored"} ELSE {"stray", "fault"}

Store(f, idx, v, inTail, outcome) ==
  LET logged == [f EXCEPT !.writes = Append(@, [index |-> idx, value |-> v,
                                                 at |-> f.i, tail |-> inTail]),
                          !.prev = idx]
  IN  CASE outcome = "stored" ->
             [logged EXCEPT !.row_splits =
                IF idx < Len(@) THEN [@ EXCEPT ![idx + 1] = v] ELSE @]
        [] outcome = "stray" -> logged
        [] outcome = "fault" -> [logged EXCEPT !.pc = "crashed"]

\* the row id advances past prev: the next slot gets the element's position
FillSlot(c) ==
  /\ IsConv(c)
  /\ calls[c].pc = "loop"
  /\ calls[c].i < calls[c].num_elems
  /\ calls[c].prev < calls[c].row_ids[calls[c].i + 1]
  /\ \E outcome \in StoreOutcomes(calls[c], calls[c].prev + 1) :
       calls' = [calls EXCEPT ![c] = Store(@, @.prev + 1, @.i, FALSE, outcome)]

\* the row id does not advance (any more): on to the next element.  After a
\* row id below the previous one, which the reference algorithm leaves
\* undefined, the remembered row is either of the two.
NextElem(c) ==
  /\ IsConv(c)
  /\ calls[c].pc = "loop"
  /\ calls[c].i < calls[c].num_elems
  /\ LET row == calls[c].row_ids[calls[c].i + 1]
     IN  /\ calls[c].prev >= row
         /\ \E p \in {calls[c].prev, row} :
              calls' = [calls EXCEPT ![c] = [@ EXCEPT !.i = @ + 1, !.prev = p]]

\* the pass is over
EndScan(c) ==
  /\ IsConv(c)
  /\ calls[c].pc = "loop"
  /\ calls[c].i >= calls[c].num_elems
  /\ calls' = [calls EXCEPT ![c] = [@ EXCEPT !.pc = "tail"]]

\* the remaining slots, up to num_rows, get num_elems
FillTail(c) ==
  /\ IsConv(c)
  /\ calls[c].pc = "tail"
  /\ calls[c].prev < calls[c].num_rows
  /\ \E outcome \in StoreOutcomes(calls[c], calls[c].prev + 1) :
       calls' = [calls EXCEPT ![c] = Store(@, @.prev + 1, @.num_elems, TRUE, outcome)]

\* RowIdsToRowSplits returns, and so does the binding (-> void)
RowIdsToRowSplitsReturn(c) ==
  /\ IsConv(c)
  /\ calls[c].pc = "tail"
  /\ calls[c].prev >= calls[c].num_rows
  /\ calls' = [calls EXCEPT ![c] = [@ EXCEPT !.pc = "done"]]

(* ------------------------- get_new2old -------------------------------- *)
\* keep.request(), num_old_elems, the empty vector new2old; then the call
\* of GetNew2Old(p_keep, num_old_elems, &new2old)
GetNew2OldRequest(c) ==
  /\ IsMask(c)
  /\ calls[c].pc = "request"
  /\ calls' = [calls EXCEPT ![c] =
       [@ EXCEPT !.num_old_elems = NumOldElems(Len(calls[c].keep)),
                 !.i = 0, !.new2old = <<>>, !.pc = "loop"]]

\* GetNew2Old, one position: i is appended when keep[i] is true
GetNew2OldStep(c) ==
  /\ IsMask(c)
  /\ calls[c].pc = "loop"
  /\ calls[c].i < calls[c].num_old_elems
  /\ calls' = [calls EXCEPT ![c] =
       [@ EXCEPT !.new2old = IF calls[c].keep[calls[c].i + 1]
                               THEN Append(@, calls[c].i) ELSE @,
                 !.i = @ + 1]]

\* return py::array(new2old.size(), new2old.data());
GetNew2OldReturn(c) ==
  /\ IsMask(c)
  /\ calls[c].pc = "loop"
  /\ calls[c].i >= calls[c].num_old_elems
  /\ calls' = [calls EXCEPT ![c] =
       [@ EXCEPT !.ret = PyArray(Len(calls[c].new2old), calls[c].new2old),
                 !.pc = "done"]]

(* --------------------------- the system ------------------------------- *)
Next ==
  \E c \in CallIds :
    \/ RowIdsToRowSplitsRequest(c)
    \/ FillSlot(c)
    \/ NextElem(c)
    \/ EndScan(c)
    \/ FillTail(c)
    \/ RowIdsToRowSplitsReturn(c)
    \/ GetNew2OldRequest(c)
    \/ GetNew2OldStep(c)
    \/ GetNew2OldReturn(c)

Spec == Init /\ [][Next]_vars
SpecSizes == InitSizes /\ [][Next]_vars
SpecConc == InitConc /\ [][Next]_vars

(* ===================== what the claims speak of ======================= *)
\* the precondition of the conversion: every row id in [0, n), none below
\* the one before it
ValidRowIds(ids, n) ==
  /\ \A k \in 1..Len(ids) : 0 <= ids[k] /\ ids[k] < n
  /\ \A k \in 1..(Len(ids) - 1) : ids[k] <= ids[k + 1]

\* the number of elements whose row id is below r
CountLess(ids, r) == Cardinality({k \in 1..Len(ids) : ids[k] < r})

\* the positions a keep mask keeps, 0-based
Kept(keep) == {p \in 0..(Len(keep) - 1) : keep[p + 1]}

\* a frame of row_ids_to_row_splits whose buffers are given as the contract
\* asks: row_splits of length num_rows + 1 >= 1, row_ids valid for num_rows
InContract(f) ==
  /\ f.kind = "row_ids_to_row_splits"
  /\ Len(f.row_splits) >= 1
  /\ ValidRowIds(f.row_ids, Len(f.row_splits) - 1)

\* C1: for valid row ids the call does not fault, and once it has returned
\* row_splits has num_rows + 1 slots and slot r holds the number of elements
\* whose row id is below r (so an empty row r has row_splits[r] =
\* row_splits[r+1]).
C1_RowSplitsCountSmallerRowIds ==
  \A c \in CallIds :
    InContract(calls[c]) =>
      /\ calls[c].pc # "crashed"
      /\ calls[c].pc = "done" =>
           /\ Len(calls[c].row_splits) = calls[c].num_rows + 1
           /\ \A r \in 0..(Len(calls[c].row_splits) - 1) :
                calls[c].row_splits[r + 1] = CountLess(calls[c].row_ids, r)

C1_Witness ==
  \E c \in CallIds :
    /\ InContract(calls[c])
    /\ calls[c].pc = "done"
    /\ calls[c].row_ids = <<0, 0, 2, 2>>
    /\ calls[c].row_splits = <<0, 2, 2, 4>>

\* C2: get_new2old has no failing outcome, and what it returns has one
\* entry per true entry of keep, holds exactly the kept positions, and is
\* strictly increasing.
C2_New2OldListsKeptPositions ==
  \A c \in CallIds :
    calls[c].kind = "get_new2old" =>
      /\ calls[c].pc \in {"request", "loop", "done"}
      /\ calls[c].pc = "done" =>
           LET ret == calls[c].ret
           IN  /\ Len(ret) = Cardinality(Kept(calls[c].keep))
               /\ {ret[j] : j \in 1..Len(ret)} = Kept(calls[c].keep)
               /\ \A j \in 1..(Len(ret) - 1) : ret[j] < ret[j + 1]

C2_Witness ==
  \E c \in CallIds :
    /\ calls[c].kind = "get_new2old"
    /\ calls[c].pc = "done"
    /\ calls[c].keep = <<FALSE, FALSE, TRUE, FALSE, TRUE, FALSE, TRUE, TRUE>>
    /\ calls[c].ret = <<2, 4, 6, 7>>

\* C3: when row_ids is the expansion of a row-splits array S (S[0] = 0, S
\* non-decreasing), the call returns with row_splits = S.
C3_RoundTripReproducesSplits ==
  \A c \in CallIds :
    (calls[c].kind = "row_ids_to_row_splits" /\ calls[c].expanded_from # NoSplits) =>
      /\ calls[c].pc # "crashed"
      /\ calls[c].pc = "done" => calls[c].row_splits = calls[c].expanded_from

C3_Witness ==
  \E c \in CallIds :
    /\ calls[c].kind = "row_ids_to_row_splits"
    /\ calls[c].pc = "done"
    /\ calls[c].expanded_from = <<0, 0, 3, 3>>
    /\ calls[c].row_ids = <<1, 1, 1>>

\* C4: for valid row ids the returned row_splits is non-decreasing, starts
\* with 0 and ends with the number of elements of row_ids.
C4_RowSplitsMonotoneFromZeroToNumElems ==
  \A c \in CallIds :
    (InContract(calls[c]) /\ calls[c].pc = "done") =>
      LET rs == calls[c].row_splits
      IN  /\ \A k \in 1..(Len(rs) - 1) : rs[k] <= rs[k + 1]
          /\ rs[1] = 0
          /\ rs[Len(rs)] = Len(calls[c].row_ids)

C4_Witness ==
  \E c \in CallIds :
    /\ InContract(calls[c])
    /\ calls[c].pc = "done"
    /\ Len(calls[c].row_ids) = 3
    /\ calls[c].row_splits = <<0, 1, 1, 3>>

\* C5 (as claimed): a call whose row_ids holds a value outside [0, num_rows)
\* or a value below the one before it never reports successful completion.
C5_InvalidRowIdsNeverComplete ==
  \A c \in CallIds :
    (/\ calls[c].kind = "row_ids_to_row_splits"
     /\ calls[c].pc # "request"
     /\ ~ValidRowIds(calls[c].row_ids, calls[c].num_rows))
    => calls[c].pc # "done"

\* C6 (as claimed): when the row_splits buffer's length is not num_rows + 1
\* the call is rejected before any slot is written.
C6_WrongLengthRejectedUnwritten ==
  \A c \in CallIds :
    (/\ calls[c].kind = "row_ids_to_row_splits"
     /\ calls[c].pc # "request"
     /\ SizeMinus1(calls[c].row_splits_size) # SizeOf(calls[c].num_rows))
    => /\ calls[c].writes = <<>>
       /\ calls[c].row_splits = [k \in 1..Len(calls[c].row_splits) |-> Junk]
       /\ calls[c].pc # "done"

\* C7 (as claimed): the core is invoked with num_elems = len(row_ids) and
\* num_rows = len(row_splits) - 1, and num_rows >= 0.
C7_DerivedSizesAreBufferSizes ==
  \A c \in CallIds :
    (calls[c].kind = "row_ids_to_row_splits" /\ calls[c].pc # "request") =>
      /\ SizeOf(calls[c].num_elems) = calls[c].row_ids_size
      /\ SizeOf(calls[c].num_rows) = SizeMinus1(calls[c].row_splits_size)
      /\ calls[c].num_rows >= 0

\* C8 (as claimed): whatever row_ids holds and however long row_splits is,
\* every store lands inside the row_splits buffer, and row_ids is unchanged.
C8_WritesInsideBufferInputUntouched ==
  \A c \in CallIds :
    calls[c].kind = "row_ids_to_row_splits" =>
      /\ \A k \in 1..Len(calls[c].writes) :
           InBuffer(calls[c].writes[k].index, calls[c].row_splits_size)
      /\ calls[c].row_ids = calls[c].row_ids_in

\* the row id before position p (0-based), -1 before the first
RowBefore(ids, p) == IF p = 0 THEN -1 ELSE ids[p]

\* C9: on valid row ids the k-th store goes to slot k-1, so the slots are
\* written in increasing order and none twice, and all num_rows + 1 of them
\* by the return; the stores made at position p are those of the slots
\* (row before p)+1 .. row_ids[p], each with p; the stores after the pass
\* are those of the slots past the last row id, each with num_elems; and
\* once position p is behind, every slot up to row_ids[p] has its final
\* value.
C9_SlotsWrittenOnceInOrder ==
  \A c \in CallIds :
    InContract(calls[c]) =>
      LET f == calls[c]
          ids == f.row_ids
          n == Len(ids)
          done == IF f.pc \in {"tail", "done"} THEN n
                  ELSE IF f.pc = "loop" THEN f.i ELSE 0
      IN  /\ \A k \in 1..Len(f.writes) : f.writes[k].index = k - 1
          /\ f.pc = "done" => Len(f.writes) = Len(f.row_splits)
          /\ \A k \in 1..Len(f.writes) :
               LET w == f.writes[k]
               IN  IF w.tail
                     THEN /\ w.value = n
                          /\ w.index > RowBefore(ids, n)
                     ELSE /\ w.value = w.at
                          /\ w.index > RowBefore(ids, w.at)
                          /\ w.index <= ids[w.at + 1]
          /\ \A p \in 0..(done - 1) :
               /\ \A s \in (RowBefore(ids, p) + 1)..ids[p + 1] :
                    \E k \in 1..Len(f.writes) :
                      /\ f.writes[k].index = s
                      /\ ~f.writes[k].tail
                      /\ f.writes[k].at = p
               /\ \A s \in 0..ids[p + 1] : f.row_splits[s + 1] = CountLess(ids, s)

C9_Witness ==
  \E c \in CallIds :
    /\ InContract(calls[c])
    /\ calls[c].pc = "done"
    /\ calls[c].row_ids = <<1, 1, 2>>
    /\ Len(calls[c].row_splits) = 4
    /\ Len(calls[c].writes) = 4
    /\ calls[c].writes[2] = [index |-> 1, value |-> 0, at |-> 0, tail |-> FALSE]
    /\ calls[c].writes[4] = [index |-> 3, value |-> 3, at |-> 3, tail |-> TRUE]

====
